---------------------------- MODULE Spec2Model ----------------------------
(***************************************************************************)
(* Knucklebones bot (src/knucklebones-bot.js): botChooseColumn and the     *)
(* board primitives it is built on.                                        *)
(*                                                                         *)
(* JavaScript arrays are objects with identity, so the model keeps a heap: *)
(* a sequence of arrays, an address being an index into it.  A board is    *)
(* the address of an array of three column addresses; a column is an array *)
(* of three slots holding a die face 1..6 or null.  Column indices are the *)
(* code's (0-based); TLA+ sequences are 1-based, hence the "+ 1" at every  *)
(* subscript.                                                              *)
(*                                                                         *)
(* Numbers: the code computes in IEEE doubles.  Medium scores are          *)
(* multiples of 1/2 and are exact; minimax values are sums of integers     *)
(* divided by 6.  They are modelled as exact fractions [num, den].         *)
(***************************************************************************)
EXTENDS Integers, Sequences, FiniteSets, TLC

VARIABLES
  myBoard,    \* the caller's first board (a 3x3 value: 3 columns of 3 slots)
  oppBoard,   \* the caller's second board
  call,       \* the engine call made last, with the arguments as passed
  heap,       \* the heap when that call returned
  ret,        \* what that call returned
  steps       \* number of _simulatePlace steps threaded so far

vars == <<myBoard, oppBoard, call, heap, ret, steps>>

null == 0
undefined == -1
BOT_COLS == 3
BOT_ROWS == 3
DieFaces == 1..6

(***************************************************************************)
(* Exact fractions.  Infinity and -Infinity are 1/0 and -1/0: the          *)
(* cross-multiplied comparisons below then order them as JavaScript does.  *)
(***************************************************************************)
Rat(n) == [num |-> n, den |-> 1]
PosInfinity == [num |-> 1, den |-> 0]
NegInfinity == [num |-> -1, den |-> 0]
RGreater(a, b) == a.num * b.den > b.num * a.den
RLess(a, b) == a.num * b.den < b.num * a.den
REqual(a, b) == a.num * b.den = b.num * a.den
RAdd(a, b) ==
  IF a.den % b.den = 0 THEN [num |-> a.num + b.num * (a.den \div b.den), den |-> a.den]
  ELSE IF b.den % a.den = 0 THEN [num |-> a.num * (b.den \div a.den) + b.num, den |-> b.den]
  ELSE [num |-> a.num * b.den + b.num * a.den, den |-> a.den * b.den]
RDiv(a, k) == [num |-> a.num, den |-> a.den * k]
RTimesHalves(n, halves) == [num |-> n * halves, den |-> 2]

(***************************************************************************)
(* Arrays and the heap.                                                    *)
(***************************************************************************)
\* const x = e; body: e is computed once and body reads its value.
Bind(e, Body(_)) == CHOOSE y \in {Body(x) : x \in {e}} : TRUE

\* An array built element by element, as a sequence value.
ArrayOf(f) == SubSeq(f, 1, Len(f))

IsNonNull(v) == v # null
Filled(col) == SelectSeq(col, IsNonNull)

\* Array.prototype.findIndex(r => r === null): 0-based, -1 when none.
FindIndexNull(arr) ==
  IF \E i \in 1..Len(arr) : arr[i] = null
  THEN (CHOOSE i \in 1..Len(arr) : arr[i] = null /\ \A j \in 1..(i - 1) : arr[j] # null) - 1
  ELSE -1

\* Number of elements of arr equal to v: arr.filter(d => d === v).length
CountEq(arr, v) == Cardinality({i \in 1..Len(arr) : arr[i] = v})

\* available[i] of a JavaScript array: undefined outside 0..length-1.
At(arr, i) == IF i >= 0 /\ i < Len(arr) THEN arr[i + 1] ELSE undefined

\* The 3x3 value of the board at address b.
BoardAt(h, b) == ArrayOf([i \in 1..Len(h[b]) |-> h[h[b][i]]])

\* The heap a caller holds before a call: board a at address 4 (its columns
\* at 1..3), board b at address 8 (its columns at 5..7).
RefA == 4
RefB == 8
Load(a, b) ==
  <<a[1], a[2], a[3], <<1, 2, 3>>, b[1], b[2], b[3], <<5, 6, 7>>>>

\* Mutant: [...board], a fresh outer array that shares the columns.
ShallowCopyBoard(h, b) == [heap |-> Append(h, h[b]), ref |-> Len(h) + 1]

\* board.map(c => [...c]): three fresh column copies and a fresh outer array.
CopyBoard(h, b) ==
  [heap |-> Append(h \o [i \in 1..Len(h[b]) |-> h[h[b][i]]],
                   ArrayOf([i \in 1..Len(h[b]) |-> Len(h) + i])),
   ref |-> Len(h) + Len(h[b]) + 1]

\* Arrays allocated by a callee and referenced only from its locals are
\* garbage once it returns: the caller's heap keeps its first n objects.
Collect(h, n) == SubSeq(h, 1, n)

(***************************************************************************)
(* Board primitives.                                                       *)
(***************************************************************************)
RECURSIVE AvailableFrom(_, _)
AvailableFrom(board, i) ==
  IF i >= BOT_COLS THEN <<>>
  ELSE IF \E r \in 1..Len(board[i + 1]) : board[i + 1][r] = null
       THEN <<i>> \o AvailableFrom(board, i + 1)
       ELSE AvailableFrom(board, i + 1)

\* Mutant: every instead of some, so only an empty column counts as open.
AvailableColsEvery(board) ==
  SelectSeq(<<0, 1, 2>>, LAMBDA i : \A r \in 1..Len(board[i + 1]) : board[i + 1][r] = null)

_availableCols(board) == AvailableFrom(board, 0)

\* count[v] of each face present, then the sum of v * n * n over the entries.
RECURSIVE SumEntries(_, _)
SumEntries(faces, filled) ==
  IF faces = {} THEN 0
  ELSE Bind(CHOOSE x \in faces : TRUE, LAMBDA v :
         v * CountEq(filled, v) * CountEq(filled, v) + SumEntries(faces \ {v}, filled))

_calcColScore(col) ==
  Bind(Filled(col), LAMBDA filled :
    IF Len(filled) = 0 THEN 0
    ELSE SumEntries({filled[i] : i \in 1..Len(filled)}, filled))

RECURSIVE TotalFrom(_, _)
TotalFrom(board, i) ==
  IF i > Len(board) THEN 0 ELSE _calcColScore(board[i]) + TotalFrom(board, i + 1)

_calcTotalScore(board) == TotalFrom(board, 1)

\* Mutant: the column is left as the cancellation made it.
CompactColSkipped(h, col) == h

\* In place: col[i] = values[i] ?? null for i < BOT_ROWS.
_compactCol(h, col) ==
  Bind(Filled(h[col]), LAMBDA values :
    [h EXCEPT ![col] =
       ArrayOf([i \in 1..BOT_ROWS |-> IF i <= Len(values) THEN values[i] ELSE null])])

_isBoardFull(board) ==
  \A c \in 1..Len(board) : \A r \in 1..Len(board[c]) : board[c][r] # null

\* Lines 236-237: the die goes into the first empty slot of board[col], if any.
PlaceDie(h, board, col, dieValue) ==
  Bind(FindIndexNull(h[h[board][col + 1]]), LAMBDA slot :
    IF slot # -1 THEN [h EXCEPT ![h[board][col + 1]][slot + 1] = dieValue] ELSE h)

\* Mutant: only the first die equal to dieValue is cancelled.
CancelFirstDie(h, board, col, dieValue) ==
  Bind(h[h[board][col + 1]], LAMBDA old :
    [Append(h, ArrayOf([i \in 1..Len(old) |->
                  IF old[i] = dieValue /\ (\A j \in 1..(i - 1) : old[j] # dieValue)
                  THEN null ELSE old[i]]))
       EXCEPT ![board][col + 1] = Len(h) + 1])

\* Line 240: board[col] becomes a fresh array with the dice equal to dieValue
\* replaced by null.
CancelDice(h, board, col, dieValue) ==
  Bind(h[h[board][col + 1]], LAMBDA old :
    [Append(h, ArrayOf([i \in 1..Len(old) |-> IF old[i] = dieValue THEN null ELSE old[i]]))
       EXCEPT ![board][col + 1] = Len(h) + 1])

_simulatePlace(h, boardA, boardB, col, dieValue) ==
  Bind(CopyBoard(h, boardA), LAMBDA newA :
  Bind(CopyBoard(newA.heap, boardB), LAMBDA newB :
  Bind(PlaceDie(newB.heap, newA.ref, col, dieValue), LAMBDA h1 :
  Bind(CancelDice(h1, newB.ref, col, dieValue), LAMBDA h2 :
    [heap |-> _compactCol(h2, h2[newB.ref][col + 1]),
     newA |-> newA.ref, newB |-> newB.ref]))))

(***************************************************************************)
(* Hard: expectimax.  A result carries the heap, the value and the number  *)
(* of calls that returned the terminal formula (leaves).  The loops carry  *)
(* their variables in acc: the heap, val (best, worst or totalExpected)    *)
(* and leaves.                                                             *)
(***************************************************************************)
RECURSIVE _minimax(_, _, _, _, _)
RECURSIVE MaxCols(_, _, _, _, _, _, _)
RECURSIVE MaxDice(_, _, _, _, _, _)
RECURSIVE MinCols(_, _, _, _, _, _, _)
RECURSIVE MinDice(_, _, _, _, _, _)

\* Mutant: the difference taken the wrong way round.
TerminalSwapped(h, my, opp) ==
  [heap |-> h, val |-> Rat(_calcTotalScore(opp) - _calcTotalScore(my)), leaves |-> 1]

Terminal(h, my, opp) ==
  [heap |-> h, val |-> Rat(_calcTotalScore(my) - _calcTotalScore(opp)), leaves |-> 1]

\* for (const col of available) of the maximizing branch, from index i.
MaxCols(acc, myB, oppB, depth, available, die, i) ==
  IF i > Len(available) THEN acc
  ELSE Bind(_simulatePlace(acc.heap, myB, oppB, available[i], die), LAMBDA sim :
       Bind(_minimax(sim.heap, sim.newA, sim.newB, depth - 1, FALSE), LAMBDA r :
       Bind([heap |-> Collect(r.heap, Len(acc.heap)),
             val |-> IF RGreater(r.val, acc.val) THEN r.val ELSE acc.val,
             leaves |-> acc.leaves + r.leaves], LAMBDA acc1 :
         MaxCols(acc1, myB, oppB, depth, available, die, i + 1))))

\* for (let die = 1; die <= 6; die++) of the maximizing branch.
MaxDice(acc, myB, oppB, depth, available, die) ==
  IF die > 6 THEN acc
  ELSE Bind(MaxCols([acc EXCEPT !.val = NegInfinity, !.leaves = 0],
                    myB, oppB, depth, available, die, 1), LAMBDA r :
       Bind([heap |-> r.heap, val |-> RAdd(acc.val, r.val),
             leaves |-> acc.leaves + r.leaves], LAMBDA acc1 :
         MaxDice(acc1, myB, oppB, depth, available, die + 1)))

\* The opponent places on oppBoard and cancels on myBoard.
MinCols(acc, myB, oppB, depth, available, die, i) ==
  IF i > Len(available) THEN acc
  ELSE Bind(_simulatePlace(acc.heap, oppB, myB, available[i], die), LAMBDA sim :
       Bind(_minimax(sim.heap, sim.newB, sim.newA, depth - 1, TRUE), LAMBDA r :
       Bind([heap |-> Collect(r.heap, Len(acc.heap)),
             val |-> IF RLess(r.val, acc.val) THEN r.val ELSE acc.val,
             leaves |-> acc.leaves + r.leaves], LAMBDA acc1 :
         MinCols(acc1, myB, oppB, depth, available, die, i + 1))))

MinDice(acc, myB, oppB, depth, available, die) ==
  IF die > 6 THEN acc
  ELSE Bind(MinCols([acc EXCEPT !.val = PosInfinity, !.leaves = 0],
                    myB, oppB, depth, available, die, 1), LAMBDA r :
       Bind([heap |-> r.heap, val |-> RAdd(acc.val, r.val),
             leaves |-> acc.leaves + r.leaves], LAMBDA acc1 :
         MinDice(acc1, myB, oppB, depth, available, die + 1)))

\* Mutant: the sum of the six values, not their mean.
ExpectedSum(r) == [heap |-> r.heap, val |-> r.val, leaves |-> r.leaves]

\* return totalExpected / 6
Expected(r) == [heap |-> r.heap, val |-> RDiv(r.val, 6), leaves |-> r.leaves]

_minimax(h, myB, oppB, depth, isMaximizing) ==
  Bind(BoardAt(h, myB), LAMBDA my :
  Bind(BoardAt(h, oppB), LAMBDA opp :
    IF depth = 0 \/ _isBoardFull(my) \/ _isBoardFull(opp) THEN Terminal(h, my, opp)
    ELSE IF isMaximizing
    THEN Bind(_availableCols(my), LAMBDA available :
           IF Len(available) = 0 THEN Terminal(h, my, opp)
           ELSE Expected(MaxDice([heap |-> h, val |-> Rat(0), leaves |-> 0],
                                 myB, oppB, depth, available, 1)))
    ELSE Bind(_availableCols(opp), LAMBDA available :
           IF Len(available) = 0 THEN Terminal(h, my, opp)
           ELSE Expected(MinDice([heap |-> h, val |-> Rat(0), leaves |-> 0],
                                 myB, oppB, depth, available, 1)))))

\* for (const col of available) of _botHard; acc also carries bestCol as col.
RECURSIVE HardCols(_, _, _, _, _, _)
HardCols(acc, myB, oppB, dieValue, available, i) ==
  IF i > Len(available) THEN acc
  ELSE Bind(_simulatePlace(acc.heap, myB, oppB, available[i], dieValue), LAMBDA sim :
       Bind(_minimax(sim.heap, sim.newA, sim.newB, 2, FALSE), LAMBDA r :
       Bind([heap |-> Collect(r.heap, Len(acc.heap)),
             col |-> IF RGreater(r.val, acc.val) THEN available[i] ELSE acc.col,
             val |-> IF RGreater(r.val, acc.val) THEN r.val ELSE acc.val,
             leaves |-> acc.leaves + r.leaves], LAMBDA acc1 :
         HardCols(acc1, myB, oppB, dieValue, available, i + 1))))

_botHard(h, myB, oppB, dieValue) ==
  Bind(_availableCols(BoardAt(h, myB)), LAMBDA available :
    HardCols([heap |-> h, col |-> At(available, 0), val |-> NegInfinity, leaves |-> 0],
             myB, oppB, dieValue, available, 1))

(***************************************************************************)
(* Medium: one-step heuristic.                                             *)
(***************************************************************************)
\* Lines 83-85: simCol = [...myBoard[col]] is a fresh array, at address
\* Len(h) + 1; simCol[emptySlot] = dieValue.  With no empty slot the
\* assignment simCol[-1] = dieValue would set a property, not an element.
SimCol(h, myB, col, dieValue) ==
  Bind(Append(h, h[h[myB][col + 1]]), LAMBDA h1 :
  Bind(FindIndexNull(h1[Len(h1)]), LAMBDA emptySlot :
    IF emptySlot # -1 THEN [h1 EXCEPT ![Len(h1)][emptySlot + 1] = dieValue] ELSE h1))

\* Mutant: the two bonuses exchanged.
BonusExchanged(sameInCol, dieValue) ==
  IF sameInCol = 2 THEN dieValue * 1
  ELSE IF sameInCol = 1 THEN dieValue * 4 ELSE 0

\* Lines 99-101.
Bonus(sameInCol, dieValue) ==
  IF sameInCol = 2 THEN dieValue * 4
  ELSE IF sameInCol = 1 THEN dieValue * 1 ELSE 0

\* The score of one column, lines 78-101.
MediumScore(h, myB, oppB, col, dieValue) ==
  Bind(SimCol(h, myB, col, dieValue), LAMBDA h1 :
    [heap |-> h1,
     val |-> RAdd(RAdd(RAdd(Rat(0),
                            Rat(_calcColScore(h1[Len(h1)])
                                  - _calcColScore(h1[h1[myB][col + 1]]))),
                       RTimesHalves(CountEq(h1[h1[oppB][col + 1]], dieValue) * dieValue, 3)),
                  Rat(Bonus(CountEq(h1[h1[myB][col + 1]], dieValue), dieValue)))])

RECURSIVE MediumCols(_, _, _, _, _, _)
MediumCols(acc, myB, oppB, dieValue, available, i) ==
  IF i > Len(available) THEN acc
  ELSE Bind(MediumScore(acc.heap, myB, oppB, available[i], dieValue), LAMBDA r :
       Bind([heap |-> Collect(r.heap, Len(acc.heap)),
             col |-> IF RGreater(r.val, acc.val) THEN available[i] ELSE acc.col,
             val |-> IF RGreater(r.val, acc.val) THEN r.val ELSE acc.val,
             leaves |-> 0], LAMBDA acc1 :
         MediumCols(acc1, myB, oppB, dieValue, available, i + 1)))

_botMedium(h, myB, oppB, dieValue) ==
  Bind(_availableCols(BoardAt(h, myB)), LAMBDA available :
    MediumCols([heap |-> h, col |-> At(available, 0), val |-> NegInfinity, leaves |-> 0],
               myB, oppB, dieValue, available, 1))

(***************************************************************************)
(* Easy: Math.random() is rnd / RandomSteps for some rnd in                *)
(* 0..RandomSteps-1, a number in [0, 1).                                   *)
(***************************************************************************)
RandomSteps == 6
RandomDraws == 0..(RandomSteps - 1)

_botEasy(h, myB, rnd) ==
  Bind(_availableCols(BoardAt(h, myB)), LAMBDA available :
    [heap |-> h, col |-> At(available, (rnd * Len(available)) \div RandomSteps),
     val |-> Rat(0), leaves |-> 0])

\* Mutant: the default case falls to Easy.
ChooseDefaultEasy(h, myB, oppB, dieValue, difficulty, rnd) ==
  CASE difficulty = "hard" -> _botHard(h, myB, oppB, dieValue)
    [] OTHER -> _botEasy(h, myB, rnd)

botChooseColumn(h, myB, oppB, dieValue, difficulty, rnd) ==
  CASE difficulty = "easy" -> _botEasy(h, myB, rnd)
    [] difficulty = "hard" -> _botHard(h, myB, oppB, dieValue)
    [] OTHER -> _botMedium(h, myB, oppB, dieValue)

(***************************************************************************)
(* Positions the engine is called on.  Columns are written slot 0 first.   *)
(***************************************************************************)
EmptyBoard == <<<<null, null, null>>, <<null, null, null>>, <<null, null, null>>>>

OwnFull    == <<<<1, 2, 3>>, <<4, 4, 5>>, <<6, 6, 6>>>>
OwnOneSlot == <<<<1, 2, 3>>, <<4, 4, null>>, <<6, 6, 6>>>>
OwnOneCol  == <<<<1, 1, 6>>, <<2, 2, 5>>, <<3, null, null>>>>
OwnLastCol == <<<<1, 2, 3>>, <<4, 5, 6>>, <<null, null, null>>>>
OwnTwo     == <<<<2, 2, null>>, <<4, null, null>>, <<5, 5, 5>>>>
OwnThree   == <<<<1, 1, null>>, <<2, 5, null>>, <<3, 3, null>>>>
OwnExample == <<<<1, 1, null>>, <<null, null, null>>, <<3, null, null>>>>

OppFull    == <<<<4, 4, 5>>, <<5, 6, 6>>, <<4, 5, 6>>>>
OppExample == <<<<2, 6, 1>>, <<4, 4, 4>>, <<3, 3, null>>>>
OppNear    == <<<<1, 1, 2>>, <<3, null, null>>, <<6, 6, 5>>>>
OppLow     == <<<<5, null, null>>, <<1, 1, null>>, <<null, null, null>>>>

OwnBoards ==
  {EmptyBoard, OwnFull, OwnOneSlot, OwnOneCol, OwnLastCol, OwnTwo, OwnThree, OwnExample}
OppBoards == {EmptyBoard, OppFull, OppExample, OppNear, OppLow}
Positions == OwnBoards \X OppBoards

Difficulties == {"easy", "medium", "hard"}
OtherTags == {"expert", ""}
Columns == 0..(BOT_COLS - 1)

NoCall ==
  [op |-> "none", mover |-> "my", a |-> EmptyBoard, b |-> EmptyBoard, col |-> undefined, die |-> 0,
   difficulty |-> "", rnd |-> 0, depth |-> 0, isMaximizing |-> FALSE]
NoRet ==
  [col |-> undefined, error |-> "none", newA |-> 0, newB |-> 0, val |-> Rat(0),
   leaves |-> 0]

Init ==
  /\ \E p \in Positions : myBoard = p[1] /\ oppBoard = p[2]
  /\ call = NoCall
  /\ heap = Load(myBoard, oppBoard)
  /\ ret = NoRet
  /\ steps = 0

\* One call of botChooseColumn on the caller's boards.  The code has no throw
\* statement and, on 3x3 boards, no operation that raises: error stays "none".
Choose(difficulty, d, rnd) ==
  /\ call.op = "none"
  /\ \E r \in {botChooseColumn(Load(myBoard, oppBoard), RefA, RefB, d, difficulty, rnd)} :
         /\ heap' = r.heap
         /\ ret' = [NoRet EXCEPT !.col = r.col, !.leaves = r.leaves]
         /\ myBoard' = BoardAt(r.heap, RefA)
         /\ oppBoard' = BoardAt(r.heap, RefB)
  /\ call' = [NoCall EXCEPT !.op = "botChooseColumn", !.a = myBoard, !.b = oppBoard,
                            !.die = d, !.difficulty = difficulty, !.rnd = rnd]
  /\ UNCHANGED steps

ChooseEasy(d, rnd) == Choose("easy", d, rnd)
ChooseMedium(d) == Choose("medium", d, 0)
ChooseHard(d) == Choose("hard", d, 0)
ChooseOther(tag, d) == Choose(tag, d, 0)

\* One call of _simulatePlace(myBoard, oppBoard, col, d) on the caller's boards.
CallSimulatePlace(col, d) ==
  /\ call.op = "none"
  /\ \E r \in {_simulatePlace(Load(myBoard, oppBoard), RefA, RefB, col, d)} :
         /\ heap' = r.heap
         /\ ret' = [NoRet EXCEPT !.newA = r.newA, !.newB = r.newB]
         /\ myBoard' = BoardAt(r.heap, RefA)
         /\ oppBoard' = BoardAt(r.heap, RefB)
  /\ call' = [NoCall EXCEPT !.op = "_simulatePlace", !.a = myBoard, !.b = oppBoard,
                            !.col = col, !.die = d]
  /\ UNCHANGED steps

Next ==
  \/ \E d \in DieFaces, rnd \in RandomDraws : ChooseEasy(d, rnd)
  \/ \E d \in DieFaces : ChooseMedium(d)
  \/ \E d \in DieFaces : ChooseHard(d)
  \/ \E d \in DieFaces, tag \in OtherTags : ChooseOther(tag, d)
  \/ \E d \in DieFaces, col \in Columns : CallSimulatePlace(col, d)

Spec == Init /\ [][Next]_vars

(***************************************************************************)
(* Threaded placements: the boards a step returns are the next step's      *)
(* boards, as in _minimax, where either board may be the mover.            *)
(***************************************************************************)
MaxSteps == 2
StartPositions ==
  {<<EmptyBoard, EmptyBoard>>, <<OwnTwo, OppLow>>, <<OwnOneCol, OppExample>>,
   <<OwnFull, OppFull>>}

InitPlace ==
  /\ \E p \in StartPositions : myBoard = p[1] /\ oppBoard = p[2]
  /\ call = NoCall
  /\ heap = Load(myBoard, oppBoard)
  /\ ret = NoRet
  /\ steps = 0

\* Line 178: [simMine, simOpp] = _simulatePlace(myBoard, oppBoard, col, die)
PlaceMine(col, d) ==
  /\ steps < MaxSteps
  /\ \E r \in {_simulatePlace(Load(myBoard, oppBoard), RefA, RefB, col, d)} :
         /\ heap' = r.heap
         /\ ret' = [NoRet EXCEPT !.newA = r.newA, !.newB = r.newB]
         /\ myBoard' = BoardAt(r.heap, r.newA)
         /\ oppBoard' = BoardAt(r.heap, r.newB)
  /\ call' = [NoCall EXCEPT !.op = "_simulatePlace", !.mover = "my", !.a = myBoard,
                            !.b = oppBoard, !.col = col, !.die = d]
  /\ steps' = steps + 1

\* Line 198: [simOpp, simMine] = _simulatePlace(oppBoard, myBoard, col, die)
PlaceOpp(col, d) ==
  /\ steps < MaxSteps
  /\ \E r \in {_simulatePlace(Load(oppBoard, myBoard), RefA, RefB, col, d)} :
         /\ heap' = r.heap
         /\ ret' = [NoRet EXCEPT !.newA = r.newA, !.newB = r.newB]
         /\ oppBoard' = BoardAt(r.heap, r.newA)
         /\ myBoard' = BoardAt(r.heap, r.newB)
  /\ call' = [NoCall EXCEPT !.op = "_simulatePlace", !.mover = "opp", !.a = oppBoard,
                            !.b = myBoard, !.col = col, !.die = d]
  /\ steps' = steps + 1

NextPlace ==
  \/ \E d \in DieFaces, col \in Columns : PlaceMine(col, d)
  \/ \E d \in DieFaces, col \in Columns : PlaceOpp(col, d)

SpecPlace == InitPlace /\ [][NextPlace]_vars

(***************************************************************************)
(* Medium on a wider family of positions: own boards whose first two      *)
(* columns hold every multiset of at most three faces 1..MaxFace (lowest   *)
(* face first) and whose last column holds zero to three dice of face 1,   *)
(* against opponents that hold those faces in the first two columns.       *)
(***************************************************************************)
MaxFace == 2
GenCols ==
  {<<x, y, z>> : x \in 0..MaxFace, y \in 0..MaxFace, z \in 0..MaxFace} \cap
  {col \in Seq(0..MaxFace) :
     Len(col) = 3 /\ \A r \in 1..2 : col[r + 1] # null => (col[r] # null /\ col[r] <= col[r + 1])}
GenLast == {<<null, null, null>>, <<1, null, null>>, <<1, 1, null>>, <<1, 1, 1>>}
GenBoards == GenCols \X GenCols \X GenLast
GenOpp == {OppNear, OppLow}
MediumPositions == Positions \cup (GenBoards \X GenOpp)

InitMedium ==
  /\ \E p \in MediumPositions : myBoard = p[1] /\ oppBoard = p[2]
  /\ call = NoCall
  /\ heap = Load(myBoard, oppBoard)
  /\ ret = NoRet
  /\ steps = 0

NextMedium ==
  \/ \E d \in DieFaces : ChooseMedium(d)
  \/ \E d \in DieFaces, tag \in OtherTags : ChooseOther(tag, d)

SpecMedium == InitMedium /\ [][NextMedium]_vars

(***************************************************************************)
(* The search tree of _botHard: a state is one call of _minimax, with the  *)
(* boards it was given in call.a and call.b; a step goes to a child call.  *)
(***************************************************************************)
SearchPositions ==
  {<<OwnTwo, OppLow>>, <<OwnThree, OppNear>>, <<OwnExample, OppExample>>}

InitSearch ==
  /\ \E p \in SearchPositions : myBoard = p[1] /\ oppBoard = p[2]
  /\ call = NoCall
  /\ heap = Load(myBoard, oppBoard)
  /\ ret = NoRet
  /\ steps = 0

\* The call _minimax(sim.heap, mine, theirs, depth, isMaximizing) as a state.
Visit(sim, mine, theirs, depth, isMaximizing, col, d) ==
  /\ \E r \in {_minimax(sim.heap, mine, theirs, depth, isMaximizing)} :
         /\ heap' = r.heap
         /\ ret' = [NoRet EXCEPT !.val = r.val, !.leaves = r.leaves]
         /\ myBoard' = BoardAt(r.heap, mine)
         /\ oppBoard' = BoardAt(r.heap, theirs)
  /\ call' = [NoCall EXCEPT !.op = "_minimax", !.a = BoardAt(sim.heap, mine),
                            !.b = BoardAt(sim.heap, theirs), !.col = col, !.die = d,
                            !.depth = depth, !.isMaximizing = isMaximizing]
  /\ steps' = steps + 1

\* Lines 133-142: the call _botHard makes for an open column.
HardRoot(col, d) ==
  /\ call.op = "none"
  /\ \E i \in 1..Len(_availableCols(myBoard)) : _availableCols(myBoard)[i] = col
  /\ \E sim \in {_simulatePlace(Load(myBoard, oppBoard), RefA, RefB, col, d)} :
         Visit(sim, sim.newA, sim.newB, 2, FALSE, col, d)

\* Lines 163-165: a call that returns the terminal formula has no child.
Searching ==
  /\ call.op = "_minimax"
  /\ ~(call.depth = 0 \/ _isBoardFull(myBoard) \/ _isBoardFull(oppBoard))

\* Lines 175-179: a child call of the maximizing branch.
DescendMax(col, d) ==
  /\ Searching /\ call.isMaximizing
  /\ \E i \in 1..Len(_availableCols(myBoard)) : _availableCols(myBoard)[i] = col
  /\ \E sim \in {_simulatePlace(Load(myBoard, oppBoard), RefA, RefB, col, d)} :
         Visit(sim, sim.newA, sim.newB, call.depth - 1, FALSE, col, d)

\* Lines 194-199: a child call of the minimizing branch.
DescendMin(col, d) ==
  /\ Searching /\ ~call.isMaximizing
  /\ \E i \in 1..Len(_availableCols(oppBoard)) : _availableCols(oppBoard)[i] = col
  /\ \E sim \in {_simulatePlace(Load(oppBoard, myBoard), RefA, RefB, col, d)} :
         Visit(sim, sim.newB, sim.newA, call.depth - 1, TRUE, col, d)

NextSearch ==
  \/ \E d \in DieFaces, col \in Columns : HardRoot(col, d)
  \/ \E d \in DieFaces, col \in Columns : DescendMax(col, d)
  \/ \E d \in DieFaces, col \in Columns : DescendMin(col, d)

SpecSearch == InitSearch /\ [][NextSearch]_vars

(***************************************************************************)
(* Vocabulary of the properties, stated on board values.                   *)
(***************************************************************************)
HasEmpty(col) == \E r \in 1..3 : col[r] = null
OpenCols(board) == {c \in Columns : HasEmpty(board[c + 1])}
IsFull(board) == OpenCols(board) = {}
Count(col, v) == Cardinality({r \in 1..3 : col[r] = v})
FilledCount(board) ==
  Cardinality({cr \in (1..3) \X (1..3) : board[cr[1]][cr[2]] # null})

\* Sum over the faces v present n times of v * n^2.
ColumnScore(col) ==
  1 * Count(col, 1) * Count(col, 1) + 2 * Count(col, 2) * Count(col, 2)
  + 3 * Count(col, 3) * Count(col, 3) + 4 * Count(col, 4) * Count(col, 4)
  + 5 * Count(col, 5) * Count(col, 5) + 6 * Count(col, 6) * Count(col, 6)
TotalScore(board) == ColumnScore(board[1]) + ColumnScore(board[2]) + ColumnScore(board[3])

\* A column is compact when no empty slot lies below a filled one.
IsCompactCol(col) ==
  /\ DOMAIN col = 1..3
  /\ \A r \in 1..3 : col[r] \in {null} \cup DieFaces
  /\ \A r \in 1..2 : col[r] = null => col[r + 1] = null
IsCompactBoard(board) ==
  DOMAIN board = 1..3 /\ \A c \in 1..3 : IsCompactCol(board[c])

\* d written into the lowest empty slot of a column (the column itself when full).
SlotWithDie(col, r, d) ==
  IF col[r] = null /\ (\A q \in 1..(r - 1) : col[q] # null) THEN d ELSE col[r]
WithDie(col, d) == <<SlotWithDie(col, 1, d), SlotWithDie(col, 2, d), SlotWithDie(col, 3, d)>>
\* The dice other than d, in their order, at the lowest slots.
IsSurvivor(col, r, d) == col[r] # null /\ col[r] # d
SurvivorsBelow(col, r, d) == Cardinality({q \in 1..(r - 1) : IsSurvivor(col, q, d)})
SlotWithoutDie(col, k, d) ==
  IF \E r \in 1..3 : IsSurvivor(col, r, d) /\ SurvivorsBelow(col, r, d) = k - 1
  THEN col[CHOOSE r \in 1..3 : IsSurvivor(col, r, d) /\ SurvivorsBelow(col, r, d) = k - 1]
  ELSE null
WithoutDie(col, d) ==
  <<SlotWithoutDie(col, 1, d), SlotWithoutDie(col, 2, d), SlotWithoutDie(col, 3, d)>>
\* The boards after the mover puts d into column c (0-based) of board a.
MoverAfter(a, c, d) == [a EXCEPT ![c + 1] = WithDie(a[c + 1], d)]
OtherAfter(b, c, d) == [b EXCEPT ![c + 1] = WithoutDie(b[c + 1], d)]

\* The lowest column of S whose value F is greatest.
FirstBest(S, F(_)) ==
  CHOOSE c \in S : (\A x \in S : F(x) <= F(c)) /\ (\A x \in S : F(x) = F(c) => c <= x)

IsChoice == call.op = "botChooseColumn"

(***************************************************************************)
(* C1: with an open column on ownBoard, botChooseColumn returns, at every  *)
(* difficulty and for every random draw, an index in {0,1,2} of a column   *)
(* of ownBoard that has an empty slot; with exactly one open column it     *)
(* returns that column.                                                    *)
(***************************************************************************)
C1_ReturnsOpenColumn ==
  (IsChoice /\ ~IsFull(call.a)) =>
     /\ ret.col \in Columns
     /\ ret.col \in OpenCols(call.a)
     /\ ret.error = "none"
     /\ (Cardinality(OpenCols(call.a)) = 1 => OpenCols(call.a) = {ret.col})

\* An easy call that drew the last of three open columns.
C1_Witness ==
  /\ IsChoice /\ call.difficulty = "easy"
  /\ call.a = OwnThree /\ ret.col = 2

(***************************************************************************)
(* C2: no call mutates a board it receives.  After _simulatePlace and      *)
(* after botChooseColumn at any difficulty the caller's eight arrays (two  *)
(* boards, six columns) are what they were, and the boards _simulatePlace  *)
(* returns are fresh arrays whose columns are none of the inputs' columns. *)
(***************************************************************************)
InputArrays == 1..RefB
C2_InputsNotMutated ==
  call.op # "none" =>
     /\ SubSeq(heap, 1, RefB) = Load(call.a, call.b)
     /\ myBoard = call.a /\ oppBoard = call.b
     /\ call.op = "_simulatePlace" =>
          /\ ret.newA \notin InputArrays /\ ret.newB \notin InputArrays
          /\ ret.newA # ret.newB
          /\ \A i \in 1..3 : heap[ret.newA][i] \notin InputArrays
          /\ \A i \in 1..3 : heap[ret.newB][i] \notin InputArrays
          /\ \A i, j \in 1..3 : heap[ret.newA][i] # heap[ret.newB][j]

\* A simulated placement that wrote a die and cancelled one.
C2_Witness ==
  /\ call.op = "_simulatePlace"
  /\ HasEmpty(call.a[call.col + 1])
  /\ Count(call.b[call.col + 1], call.die) >= 1
  /\ BoardAt(heap, ret.newA) # call.a
  /\ BoardAt(heap, ret.newB) # call.b

(***************************************************************************)
(* C3: called with an ownBoard that has no open column, botChooseColumn    *)
(* fails with an InvalidState error at each difficulty.                    *)
(***************************************************************************)
C3_FullBoardIsAnError ==
  (IsChoice /\ IsFull(call.a)) => ret.error = "InvalidState"

(***************************************************************************)
(* C7: when every open column's simulated placement leaves one of the two  *)
(* boards full, Hard returns the first open column that maximises          *)
(* totalScore(own') - totalScore(opp') after that one placement.           *)
(***************************************************************************)
AlmostFull(a, b, d) ==
  \A c \in OpenCols(a) : IsFull(MoverAfter(a, c, d)) \/ IsFull(OtherAfter(b, c, d))
ImmediateScore(a, b, c, d) ==
  TotalScore(MoverAfter(a, c, d)) - TotalScore(OtherAfter(b, c, d))

C7_AlmostFullIsImmediateBest ==
  (IsChoice /\ call.difficulty = "hard" /\ ~IsFull(call.a)
     /\ AlmostFull(call.a, call.b, call.die)) =>
     LET Score(c) == ImmediateScore(call.a, call.b, c, call.die)
     IN  ret.col = FirstBest(OpenCols(call.a), Score)

\* Three open columns against a full opponent board, the best one the last.
C7_Witness ==
  /\ IsChoice /\ call.difficulty = "hard"
  /\ AlmostFull(call.a, call.b, call.die)
  /\ Cardinality(OpenCols(call.a)) = 3
  /\ ret.col = 2

(***************************************************************************)
(* C9: one Hard decision evaluates the terminal formula at most 162 times. *)
(***************************************************************************)
C9_AtMost162Leaves ==
  (IsChoice /\ call.difficulty = "hard") => ret.leaves <= 162

(***************************************************************************)
(* C8: from compact boards, every _simulatePlace step, with either board   *)
(* the mover, any column and any die, returns compact 3x3 boards: the die  *)
(* is in the lowest empty slot of the mover's column, and in the other     *)
(* board's column the surviving dice keep their order at the lowest slots. *)
(***************************************************************************)
\* The boards the last step returned: the mover's, and the other one.
ReturnedA == IF call.mover = "my" THEN myBoard ELSE oppBoard
ReturnedB == IF call.mover = "my" THEN oppBoard ELSE myBoard

C8_StepsKeepBoardsCompact ==
  /\ IsCompactBoard(myBoard) /\ IsCompactBoard(oppBoard)
  /\ call.op = "_simulatePlace" =>
       /\ ReturnedA[call.col + 1] = WithDie(call.a[call.col + 1], call.die)
       /\ ReturnedB[call.col + 1] = WithoutDie(call.b[call.col + 1], call.die)

\* A second step that cancelled the lowest die of a column and shifted the
\* die above it down.
C8_Witness ==
  /\ steps = 2 /\ call.op = "_simulatePlace"
  /\ call.b[call.col + 1][1] = call.die
  /\ call.b[call.col + 1][2] \notin {null, call.die}
  /\ ReturnedB[call.col + 1][1] = call.b[call.col + 1][2]

(***************************************************************************)
(* C10: a step on an open column, taken from boards in which no column     *)
(* index holds a common face on both boards, leaves them so; it raises the *)
(* mover's number of dice by one, lowers the other board's by the number   *)
(* of dice equal to the placed die in that column, and changes no other    *)
(* column.                                                                 *)
(***************************************************************************)
FacesOf(col) == {col[r] : r \in 1..3} \ {null}
Disjoint(a, b) == \A c \in 1..3 : FacesOf(a[c]) \cap FacesOf(b[c]) = {}

StepKeepsDisjoint ==
  (/\ call'.op = "_simulatePlace" /\ steps' = steps + 1
   /\ Disjoint(myBoard, oppBoard)
   /\ HasEmpty(call'.a[call'.col + 1])) =>
     LET a == call'.a
         b == call'.b
         newA == IF call'.mover = "my" THEN myBoard' ELSE oppBoard'
         newB == IF call'.mover = "my" THEN oppBoard' ELSE myBoard'
         c == call'.col + 1
     IN  /\ Disjoint(myBoard', oppBoard')
         /\ a = (IF call'.mover = "my" THEN myBoard ELSE oppBoard)
         /\ b = (IF call'.mover = "my" THEN oppBoard ELSE myBoard)
         /\ FilledCount(newA) = FilledCount(a) + 1
         /\ FilledCount(newB) = FilledCount(b) - Count(b[c], call'.die)
         /\ \A x \in (1..3) \ {c} : newA[x] = a[x] /\ newB[x] = b[x]

C10_CancellationKeepsColumnsDisjoint == [][StepKeepsDisjoint]_vars

\* A second step from disjoint boards that cancelled two dice at once.
C10_Witness ==
  /\ steps = 2 /\ call.op = "_simulatePlace"
  /\ Disjoint(call.a, call.b) /\ Disjoint(myBoard, oppBoard)
  /\ HasEmpty(call.a[call.col + 1])
  /\ Count(call.b[call.col + 1], call.die) = 2

(***************************************************************************)
(* C4: for every difficulty other than "easy" and "hard", unrecognized     *)
(* tags included, botChooseColumn raises no error and returns the column   *)
(* the Medium strategy returns for the same boards and die.                *)
(***************************************************************************)
C4_DefaultIsMedium ==
  (IsChoice /\ call.difficulty \notin {"easy", "hard"}) =>
     /\ ret.error = "none"
     /\ ret.col = _botMedium(Load(call.a, call.b), RefA, RefB, call.die).col

\* An unrecognized tag, three open columns, and Medium's choice the last one.
C4_Witness ==
  /\ IsChoice /\ call.difficulty = "expert"
  /\ Cardinality(OpenCols(call.a)) = 3
  /\ ret.col = 2

(***************************************************************************)
(* C5: Medium returns the lowest open column c that maximises              *)
(*   S(c) = columnScore(own[c] with d placed) - columnScore(own[c])        *)
(*          + 1.5 * d * (number of d in opp[c]) + bonus(c),                *)
(* bonus being 4d when own[c] holds two d, d when it holds one, else 0.    *)
(* TwiceS is 2 * S(c), an integer.                                         *)
(***************************************************************************)
TwiceS(a, b, c, d) ==
  2 * (ColumnScore(WithDie(a[c + 1], d)) - ColumnScore(a[c + 1]))
  + 3 * d * Count(b[c + 1], d)
  + 2 * (IF Count(a[c + 1], d) = 2 THEN 4 * d
         ELSE IF Count(a[c + 1], d) = 1 THEN d ELSE 0)

C5_MediumMaximisesS ==
  (IsChoice /\ call.difficulty = "medium" /\ ~IsFull(call.a)) =>
     LET S2(c) == TwiceS(call.a, call.b, c, call.die)
     IN  ret.col = FirstBest(OpenCols(call.a), S2)

\* The example: own column [3,-,-] against [3,3,-] with d = 3 has S = 21, and
\* Medium takes it over two earlier open columns.
C5_Witness ==
  /\ IsChoice /\ call.difficulty = "medium" /\ call.die = 3
  /\ call.a[3] = <<3, null, null>> /\ call.b[3] = <<3, 3, null>>
  /\ TwiceS(call.a, call.b, 2, 3) = 2 * 21
  /\ Cardinality(OpenCols(call.a)) = 3
  /\ ret.col = 2

(***************************************************************************)
(* C6: at a call of _minimax that is not terminal, the value returned is   *)
(* the mean over the die faces 1..6 of the extreme child value for that    *)
(* face: the maximum over the open columns of myBoard at a maximizing      *)
(* node, the minimum over the open columns of oppBoard at a minimizing     *)
(* one, the children being called with depth - 1 and the flag flipped.     *)
(***************************************************************************)
RECURSIVE Pow6(_)
Pow6(n) == IF n = 0 THEN 1 ELSE 6 * Pow6(n - 1)

IsInnerNode ==
  /\ call.op = "_minimax" /\ call.depth > 0
  /\ ~IsFull(call.a) /\ ~IsFull(call.b)

\* The value of the child for column c and face d, in units of 1 / 6^(depth-1).
ChildUnits(c, d) ==
  LET v == IF call.isMaximizing
           THEN _minimax(Load(MoverAfter(call.a, c, d), OtherAfter(call.b, c, d)),
                         RefA, RefB, call.depth - 1, FALSE).val
           ELSE _minimax(Load(OtherAfter(call.a, c, d), MoverAfter(call.b, c, d)),
                         RefA, RefB, call.depth - 1, TRUE).val
  IN  (v.num * Pow6(call.depth - 1)) \div v.den

ExtremeUnits(d) ==
  LET S == IF call.isMaximizing THEN OpenCols(call.a) ELSE OpenCols(call.b)
      vals == {ChildUnits(c, d) : c \in S}
  IN  IF call.isMaximizing
      THEN CHOOSE x \in vals : \A y \in vals : y <= x
      ELSE CHOOSE x \in vals : \A y \in vals : x <= y

C6_ValueIsMeanOfExtremes ==
  IsInnerNode =>
     ret.val.num * 6 * Pow6(call.depth - 1) =
       (ExtremeUnits(1) + ExtremeUnits(2) + ExtremeUnits(3)
        + ExtremeUnits(4) + ExtremeUnits(5) + ExtremeUnits(6)) * ret.val.den

\* A minimizing node two plies above the leaves whose value is not a whole
\* number of sixths: a mean, neither the sum nor one of the extremes.
C6_Witness ==
  /\ IsInnerNode /\ ~call.isMaximizing /\ call.depth = 2
  /\ ret.val.den = 36 /\ ret.val.num % 6 # 0

=============================================================================
